---------------------------- MODULE Spec2Model ----------------------------
(***************************************************************************)
(* Model of UnblockerService (src/src/unblocker/unblocker.controller.ts):  *)
(* the shared lazily launched browser handle (getBrowser, the              *)
(* 'disconnected' listener, onModuleDestroy) and the per-request fetch     *)
(* getPageContent, one step per awaited browser-control operation.         *)
(*                                                                         *)
(* Each request r launches at most one browser, one context and one page,  *)
(* so the browser launched by request r is named r, and likewise the       *)
(* context and the page.                                                   *)
(***************************************************************************)
EXTENDS Integers, Sequences, FiniteSets, TLC

\* Number of getPageContent calls in flight (each is made once).
NumReqs == 2

\* Number of requests a page issues besides its document request.
MaxSubRequests == 2

Reqs == 1 .. NumReqs

\* `this.browser = null`
NoBrowser == 0

\* An absent string (undefined / null) and an absent html (null).
Undefined == "undefined"
None == << >>
Some(x) == << x >>

--------------------------------------------------------------------------
\* Static configuration and HttpStatus codes used by the service.

NETWORK_IDLE_TIMEOUT == 60000

BAD_GATEWAY == 502
FORBIDDEN == 403
GATEWAY_TIMEOUT == 504
INTERNAL_SERVER_ERROR == 500

\* The challenge marker 'px-captcha', as the token sequence searched for.
Marker == << "px-", "captcha" >>

\* Serialized documents page.content() may yield (token sequences): one
\* without the marker's tokens, one holding the marker, one holding its
\* tokens apart.
PlainHtml == << "<html>", "</html>" >>
CaptchaHtml == << "<html>", "px-", "captcha", "</html>" >>
Htmls == { PlainHtml, CaptchaHtml, << "px-", "<div>", "captcha" >> }

\* Status codes of the response the target may answer with.
Statuses == { 200, 301, 403, 404, 500 }

\* The URL handed to getPageContent, and what page.url() may report: the
\* initial blank page, the requested URL, a redirect target, or nothing.
RequestedUrl == "https://example.test/ok"
RedirectUrl == "https://example.test/moved"
BlankUrl == "about:blank"
PageUrls == { BlankUrl, RequestedUrl, RedirectUrl, Undefined }

\* Exceptions an awaited browser operation may reject with.
ErrKinds == { "TimeoutError", "Error" }

NoResult == [ html |-> None, status |-> 0, error |-> Undefined, finalUrl |-> Undefined ]

--------------------------------------------------------------------------
\* Pure helpers.

\* String.prototype.includes, on token sequences.
Includes(h, m) ==
  \E i \in 1 .. (Len(h) - Len(m) + 1) : SubSeq(h, i, i + Len(m) - 1) = m

\* a ?? b
Coalesce(a, b) == IF a = Undefined THEN b ELSE a

TimeoutMessage ==
  "Navigation timed out after " \o ToString(NETWORK_IDLE_TIMEOUT \div 1000)
    \o "s. The target page is likely too slow or unresponsive."

InternalMessage ==
  "An unexpected internal error occurred during page processing. See service logs for details."

NoResponseMessage == "Navigation failed, no response received from the server."

BotMessage == "Bot detection or captcha was triggered."

\* Variant: the requested URL is reported instead of page.url().
NoResponseResultRequestedUrl(purl) ==
  [ html |-> None, status |-> BAD_GATEWAY, error |-> NoResponseMessage,
    finalUrl |-> RequestedUrl ]

\* `if (!response) return {...}`
NoResponseResult(purl) ==
  [ html |-> None, status |-> BAD_GATEWAY, error |-> NoResponseMessage, finalUrl |-> purl ]

\* Variant: only the marker is looked for, the 403 status is passed through.
ClassifyByMarkerOnly(status, html, purl) ==
  IF Includes(html, Marker)
  THEN [ html |-> Some(html), status |-> FORBIDDEN, error |-> BotMessage, finalUrl |-> purl ]
  ELSE [ html |-> Some(html), status |-> status, error |-> Undefined, finalUrl |-> purl ]

\* Lines 220-236: classification of a received response.
Classify(status, html, purl) ==
  IF Includes(html, Marker) \/ status = 403
  THEN [ html |-> Some(html), status |-> FORBIDDEN, error |-> BotMessage, finalUrl |-> purl ]
  ELSE [ html |-> Some(html), status |-> status, error |-> Undefined, finalUrl |-> purl ]

\* Variant: the catch block without its TimeoutError branch.
CatchResultGeneric(kind, purl, u) ==
  [ html |-> None, status |-> INTERNAL_SERVER_ERROR, error |-> InternalMessage,
    finalUrl |-> Coalesce(purl, u) ]

\* The catch block (lines 238-258).
CatchResult(kind, purl, u) ==
  IF kind = "TimeoutError"
  THEN [ html |-> None, status |-> GATEWAY_TIMEOUT, error |-> TimeoutMessage,
         finalUrl |-> Coalesce(purl, u) ]
  ELSE [ html |-> None, status |-> INTERNAL_SERVER_ERROR, error |-> InternalMessage,
         finalUrl |-> Coalesce(purl, u) ]

--------------------------------------------------------------------------
\* Request filtering (lines 85-96 and 190-202).  Request URLs are sequences
\* of characters.

UpperCase ==
  << "A", "B", "C", "D", "E", "F", "G", "H", "I", "J", "K", "L", "M", "N",
     "O", "P", "Q", "R", "S", "T", "U", "V", "W", "X", "Y", "Z" >>

LowerCase ==
  << "a", "b", "c", "d", "e", "f", "g", "h", "i", "j", "k", "l", "m", "n",
     "o", "p", "q", "r", "s", "t", "u", "v", "w", "x", "y", "z" >>

Digits ==
  << "0", "1", "2", "3", "4", "5", "6", "7", "8", "9" >>

Range(f) == { f[i] : i \in DOMAIN f }

\* The characters [A-Z0-9] matches under the i flag.
AlphaNum == Range(UpperCase) \cup Range(LowerCase) \cup Range(Digits)

\* Case folding of one character (the i flag).
Lower(c) ==
  IF \E i \in DOMAIN UpperCase : UpperCase[i] = c
  THEN LowerCase[CHOOSE i \in DOMAIN UpperCase : UpperCase[i] = c]
  ELSE c

\* The literal tail of PXSCRIPT_PATTERN.
InitJs == << "/", "i", "n", "i", "t", ".", "j", "s" >>

\* PXSCRIPT_PATTERN.test(u), with PXSCRIPT_PATTERN = /\/[A-Z0-9]+\/init\.js/i:
\* somewhere in u a slash, one or more alphanumerics, then "/init.js".
PxScriptTest(u) ==
  \E i \in 1 .. Len(u), j \in 1 .. Len(u) :
    /\ u[i] = "/"
    /\ j >= i + 2
    /\ \A k \in (i + 1) .. (j - 1) : u[k] \in AlphaNum
    /\ j + Len(InitJs) - 1 <= Len(u)
    /\ [ k \in 1 .. Len(InitJs) |-> Lower(u[j + k - 1]) ] = InitJs

BLOCKED_TRACKING_DOMAINS ==
  {
    << "g", "o", "o", "g", "l", "e", "-", "a", "n", "a", "l", "y", "t", "i", "c", "s", ".", "c", "o", "m" >>,
    << "g", "o", "o", "g", "l", "e", "t", "a", "g", "m", "a", "n", "a", "g", "e", "r", ".", "c", "o", "m" >>,
    << "d", "o", "u", "b", "l", "e", "c", "l", "i", "c", "k", ".", "n", "e", "t" >>,
    << "f", "a", "c", "e", "b", "o", "o", "k", ".", "n", "e", "t" >>,
    << "t", "w", "i", "t", "t", "e", "r", ".", "c", "o", "m" >>,
    << "a", "n", "a", "l", "y", "t", "i", "c", "s", ".", "y", "a", "h", "o", "o", ".", "c", "o", "m" >>,
    << "a", "d", "s", "e", "r", "v", "i", "c", "e", ".", "g", "o", "o", "g", "l", "e", ".", "c", "o", "m" >>
  }

\* BLOCKED_TRACKING_DOMAINS.some(domain => requestUrl.includes(domain))
IsTracker(u) == \E domain \in BLOCKED_TRACKING_DOMAINS : Includes(u, domain)

\* Variant: the handler with the tracker test as a second `if` rather than
\* an `else if`.
OnRequestTwoIfs(u) ==
  (IF PxScriptTest(u) THEN << "abort" >> ELSE << >>)
    \o (IF IsTracker(u) THEN << "abort" >> ELSE << "continue" >>)

\* The 'request' listener: the calls it makes on the request, in order.
OnRequest(u) ==
  IF PxScriptTest(u) THEN << "abort" >>
  ELSE IF IsTracker(u) THEN << "abort" >>
  ELSE << "continue" >>

\* RequestedUrl character by character: the document request of the
\* navigation.
DocumentUrl ==
  << "h", "t", "t", "p", "s", ":", "/", "/", "e", "x", "a", "m", "p", "l",
     "e", ".", "t", "e", "s", "t", "/", "o", "k" >>

\* https://example.test/AB12CD34/init.js
InitScriptUrl ==
  << "h", "t", "t", "p", "s", ":", "/", "/", "e", "x", "a", "m", "p", "l",
     "e", ".", "t", "e", "s", "t", "/", "A", "B", "1", "2", "C", "D", "3",
     "4", "/", "i", "n", "i", "t", ".", "j", "s" >>

\* https://px.test/58asv359/INIT.js?v=2
LowerInitScriptUrl ==
  << "h", "t", "t", "p", "s", ":", "/", "/", "p", "x", ".", "t", "e", "s",
     "t", "/", "5", "8", "a", "s", "v", "3", "5", "9", "/", "I", "N", "I",
     "T", ".", "j", "s", "?", "v", "=", "2" >>

\* https://twitter.com/w1/init.js
TrackedInitScriptUrl ==
  << "h", "t", "t", "p", "s", ":", "/", "/", "t", "w", "i", "t", "t", "e",
     "r", ".", "c", "o", "m", "/", "w", "1", "/", "i", "n", "i", "t", ".",
     "j", "s" >>

\* https://www.google-analytics.com/collect
TrackerUrl ==
  << "h", "t", "t", "p", "s", ":", "/", "/", "w", "w", "w", ".", "g", "o",
     "o", "g", "l", "e", "-", "a", "n", "a", "l", "y", "t", "i", "c", "s",
     ".", "c", "o", "m", "/", "c", "o", "l", "l", "e", "c", "t" >>

\* https://example.test//init.js
NoAppIdUrl ==
  << "h", "t", "t", "p", "s", ":", "/", "/", "e", "x", "a", "m", "p", "l",
     "e", ".", "t", "e", "s", "t", "/", "/", "i", "n", "i", "t", ".", "j",
     "s" >>

\* https://example.test/a-b/init.js
DashedAppIdUrl ==
  << "h", "t", "t", "p", "s", ":", "/", "/", "e", "x", "a", "m", "p", "l",
     "e", ".", "t", "e", "s", "t", "/", "a", "-", "b", "/", "i", "n", "i",
     "t", ".", "j", "s" >>

\* https://example.test/Twitter.com.css
StyleUrl ==
  << "h", "t", "t", "p", "s", ":", "/", "/", "e", "x", "a", "m", "p", "l",
     "e", ".", "t", "e", "s", "t", "/", "T", "w", "i", "t", "t", "e", "r",
     ".", "c", "o", "m", ".", "c", "s", "s" >>

\* Requests a page may issue besides the document request.
SubRequests ==
  { InitScriptUrl, LowerInitScriptUrl, TrackedInitScriptUrl, TrackerUrl,
    NoAppIdUrl, DashedAppIdUrl, StyleUrl }

\* The data one fetch may meet, and the part of it that concurrent fetches
\* are run with (calls share the browser handle only: no status, document,
\* location or request of one call reaches another).
AllData ==
  [ statuses |-> Statuses, htmls |-> Htmls, urls |-> PageUrls,
    requests |-> SubRequests ]
SomeData ==
  [ statuses |-> { 200 }, htmls |-> { PlainHtml, CaptchaHtml },
    urls |-> { RequestedUrl }, requests |-> {} ]

--------------------------------------------------------------------------
VARIABLES
  browser,    \* this.browser: NoBrowser or the browser stored
  bstate,     \* bstate[b]: "none" (not launched), "live", "dead"
  pending,    \* browsers whose 'disconnected' event is not yet delivered
  call,       \* call[r]: the state of the getPageContent call r
  destroy     \* onModuleDestroy: its position and the handle it is closing

vars == << browser, bstate, pending, call, destroy >>

\* call[r].pc is the awaited operation the call is suspended at, or "idle",
\* "returned", "thrown".  browser, context, page, pageUrl, status and html
\* are the locals and the page's location; closes counts page.close()
\* calls; navigated tells how page.goto ended; caught is the exception the
\* catch block handled; rejected is the operation outside the try block
\* (launch, createBrowserContext, newPage, close) that rejected; ret is the
\* value of the return statement executed; requests holds the requests the
\* page has issued, each with the calls the 'request' listener made on it;
\* sent is what the controller answered the HTTP request with; contextId
\* and pageId name the context and the page the call holds in its locals
\* (0: none); late tells that the call was made after onModuleDestroy had
\* completed; applied holds the set-up operations that have resolved on the
\* page.
IdleCall ==
  [ pc |-> "idle", url |-> Undefined, browser |-> NoBrowser, context |-> FALSE,
    page |-> "none", closes |-> 0, pageUrl |-> Undefined, navigated |-> "none",
    status |-> 0, html |-> None, caught |-> "none", rejected |-> "none",
    ret |-> NoResult, requests |-> {}, sent |-> NoResult,
    contextId |-> 0, pageId |-> 0, late |-> FALSE, applied |-> {} ]

Init ==
  /\ browser = NoBrowser
  /\ bstate = [ b \in Reqs |-> "none" ]
  /\ pending = {}
  /\ call = [ r \in Reqs |-> IdleCall ]
  /\ destroy = [ pc |-> "idle", closing |-> NoBrowser ]

\* browser.connected
Connected(b) == bstate[b] = "live"

\* The browser the call works on still runs.
Usable(r) == call[r].browser # NoBrowser /\ Connected(call[r].browser)

Set(r, c) == call' = [ call EXCEPT ![r] = c ]

--------------------------------------------------------------------------
\* getBrowser (lines 127-155)

\* Variant: the stored handle is reused without asking it whether it is
\* connected.
ReusableUnchecked == browser # NoBrowser

\* Line 130: `this.browser && this.browser.connected`
Reusable == browser # NoBrowser /\ Connected(browser)

\* getPageContent(url) is called: getBrowser runs up to its first await.
Start(r) ==
  /\ call[r].pc = "idle"
  /\ IF Reusable
       THEN Set(r, [ call[r] EXCEPT !.pc = "createBrowserContext",
                                    !.url = RequestedUrl, !.browser = browser,
                                    !.late = (destroy.pc = "done") ])
       ELSE Set(r, [ call[r] EXCEPT !.pc = "launch", !.url = RequestedUrl,
                                    !.late = (destroy.pc = "done") ])
  /\ UNCHANGED << browser, bstate, pending, destroy >>

\* Variant: a launch that resolves while a handle is stored keeps that one.
LaunchOkKeepsFirst(r) ==
  /\ call[r].pc = "launch"
  /\ bstate' = [ bstate EXCEPT ![r] = "live" ]
  /\ browser' = IF browser = NoBrowser THEN r ELSE browser
  /\ Set(r, [ call[r] EXCEPT !.pc = "createBrowserContext", !.browser = r ])
  /\ UNCHANGED << pending, destroy >>

\* puppeteer.launch resolves: the listener is registered, the handle stored
\* and returned.
LaunchOk(r) ==
  /\ call[r].pc = "launch"
  /\ bstate' = [ bstate EXCEPT ![r] = "live" ]
  /\ browser' = r
  /\ Set(r, [ call[r] EXCEPT !.pc = "createBrowserContext", !.browser = r ])
  /\ UNCHANGED << pending, destroy >>

\* Operation op rejects outside the try block: the exception leaves
\* getPageContent.
Escape(r, op) == Set(r, [ call[r] EXCEPT !.pc = "thrown", !.rejected = op ])

\* puppeteer.launch rejects: nothing catches it in getBrowser nor in
\* getPageContent (line 163 is outside the try).
LaunchFail(r) ==
  /\ call[r].pc = "launch"
  /\ Escape(r, "launch")
  /\ UNCHANGED << browser, bstate, pending, destroy >>

--------------------------------------------------------------------------
\* getPageContent, lines 164-165: outside the try block.

\* Variant: a context some other call holds is handed out again.
SharedContext(r) ==
  IF \E q \in Reqs \ { r } : call[q].contextId # 0
  THEN call[CHOOSE q \in Reqs \ { r } : call[q].contextId # 0].contextId
  ELSE r

\* The context createBrowserContext() makes for call r: a new one, named
\* after the call.
NewContext(r) == r

\* The page context.newPage() makes for call r: a new one.
NewPage(r) == r

\* browser.createBrowserContext() resolves.
CreateContextOk(r) ==
  /\ call[r].pc = "createBrowserContext"
  /\ Usable(r)
  /\ Set(r, [ call[r] EXCEPT !.pc = "newPage", !.context = TRUE,
                             !.contextId = NewContext(r) ])
  /\ UNCHANGED << browser, bstate, pending, destroy >>

\* browser.createBrowserContext() rejects.
CreateContextFail(r) ==
  /\ call[r].pc = "createBrowserContext"
  /\ Escape(r, "createBrowserContext")
  /\ UNCHANGED << browser, bstate, pending, destroy >>

\* context.newPage() resolves: the page shows the blank document.
NewPageOk(r) ==
  /\ call[r].pc = "newPage"
  /\ Usable(r)
  /\ Set(r, [ call[r] EXCEPT !.pc = "setUserAgent", !.page = "open", !.pageUrl = BlankUrl,
                             !.pageId = NewPage(r) ])
  /\ UNCHANGED << browser, bstate, pending, destroy >>

\* context.newPage() rejects: nothing closes the context of line 164.
NewPageFail(r) ==
  /\ call[r].pc = "newPage"
  /\ Escape(r, "newPage")
  /\ UNCHANGED << browser, bstate, pending, destroy >>

--------------------------------------------------------------------------
\* getPageContent, the try block (lines 167-237) and its catch (238-258).

\* An awaited operation of the try block rejects: the catch block builds
\* the result and control passes to the finally block.
Catch(r) ==
  \E k \in ErrKinds :
    Set(r, [ call[r] EXCEPT !.pc = "close", !.caught = k,
                            !.ret = CatchResult(k, call[r].pageUrl, call[r].url) ])

\* The set-up operations of lines 168-202, in program order; the 'request'
\* listener is registered in the step in which setRequestInterception(true)
\* resolves.
SetUp ==
  { "setUserAgent", "setViewport", "evaluateOnNewDocument", "setRequestInterception" }

\* Variant: navigation is issued as soon as the user agent is set.
SetUserAgentThenGoto(r) ==
  /\ call[r].pc = "setUserAgent"
  /\ Usable(r)
  /\ Set(r, [ call[r] EXCEPT !.pc = "goto", !.applied = @ \cup { "setUserAgent" } ])
  /\ UNCHANGED << browser, bstate, pending, destroy >>

\* An awaited set-up operation resolves and the next one is issued.
Proceed(r, next) ==
  Set(r, [ call[r] EXCEPT !.pc = next, !.applied = @ \cup { call[r].pc } ])

SetUserAgentOk(r) ==
  /\ call[r].pc = "setUserAgent"
  /\ Usable(r)
  /\ Proceed(r, "setViewport")
  /\ UNCHANGED << browser, bstate, pending, destroy >>

SetUserAgentFail(r) ==
  /\ call[r].pc = "setUserAgent"
  /\ Catch(r)
  /\ UNCHANGED << browser, bstate, pending, destroy >>

SetViewportOk(r) ==
  /\ call[r].pc = "setViewport"
  /\ Usable(r)
  /\ Proceed(r, "evaluateOnNewDocument")
  /\ UNCHANGED << browser, bstate, pending, destroy >>

SetViewportFail(r) ==
  /\ call[r].pc = "setViewport"
  /\ Catch(r)
  /\ UNCHANGED << browser, bstate, pending, destroy >>

EvaluateOnNewDocumentOk(r) ==
  /\ call[r].pc = "evaluateOnNewDocument"
  /\ Usable(r)
  /\ Proceed(r, "setRequestInterception")
  /\ UNCHANGED << browser, bstate, pending, destroy >>

EvaluateOnNewDocumentFail(r) ==
  /\ call[r].pc = "evaluateOnNewDocument"
  /\ Catch(r)
  /\ UNCHANGED << browser, bstate, pending, destroy >>

\* setRequestInterception(true) resolves; page.on('request', ...) and
\* page.goto(url, ...) are issued.
SetRequestInterceptionOk(r) ==
  /\ call[r].pc = "setRequestInterception"
  /\ Usable(r)
  /\ Proceed(r, "goto")
  /\ UNCHANGED << browser, bstate, pending, destroy >>

SetRequestInterceptionFail(r) ==
  /\ call[r].pc = "setRequestInterception"
  /\ Catch(r)
  /\ UNCHANGED << browser, bstate, pending, destroy >>

\* The page issues a request while it navigates or afterwards (first the
\* document request of page.goto, then any other): the 'request' listener
\* of lines 190-202 runs on it.
PageRequest(r, d) ==
  /\ call[r].pc \in { "goto", "content", "close" }
  /\ Usable(r)
  /\ \E u \in { DocumentUrl } \cup d.requests :
       /\ \A q \in call[r].requests : q.url # u
       /\ u # DocumentUrl => \E q \in call[r].requests : q.url = DocumentUrl
       /\ u = DocumentUrl => call[r].pc = "goto"
       /\ Cardinality(call[r].requests) <= MaxSubRequests
       /\ Set(r, [ call[r] EXCEPT
                    !.requests = @ \cup
                      { [ url |-> u,
                          calls |-> IF "setRequestInterception" \in call[r].applied
                                    THEN OnRequest(u) ELSE << >> ] } ])
  /\ UNCHANGED << browser, bstate, pending, destroy >>

\* The document request has been let through.
DocumentContinued(r) ==
  \E q \in call[r].requests : q.url = DocumentUrl /\ q.calls = << "continue" >>

\* page.goto resolves with a response: its status is read and
\* page.content() is issued.  The page is now at some location.
GotoResponse(r, d) ==
  /\ call[r].pc = "goto"
  /\ Usable(r)
  /\ DocumentContinued(r)
  /\ \E s \in d.statuses, u \in d.urls :
       Set(r, [ call[r] EXCEPT !.pc = "content", !.navigated = "response",
                               !.status = s, !.pageUrl = u ])
  /\ UNCHANGED << browser, bstate, pending, destroy >>

\* page.goto resolves with null.
GotoNoResponse(r, d) ==
  /\ call[r].pc = "goto"
  /\ Usable(r)
  /\ \E u \in d.urls :
       Set(r, [ call[r] EXCEPT !.pc = "close", !.navigated = "noresponse",
                               !.pageUrl = u, !.ret = NoResponseResult(u) ])
  /\ UNCHANGED << browser, bstate, pending, destroy >>

\* page.goto rejects (TimeoutError after NETWORK_IDLE_TIMEOUT, or another
\* error); the page may have moved before that.
GotoFail(r, d) ==
  /\ call[r].pc = "goto"
  /\ \E k \in ErrKinds, u \in d.urls :
       Set(r, [ call[r] EXCEPT !.pc = "close", !.navigated = "threw",
                               !.pageUrl = u, !.caught = k,
                               !.ret = CatchResult(k, u, call[r].url) ])
  /\ UNCHANGED << browser, bstate, pending, destroy >>

\* page.content() resolves: page.url() is read and the response classified.
ContentOk(r, d) ==
  /\ call[r].pc = "content"
  /\ Usable(r)
  /\ \E h \in d.htmls :
       Set(r, [ call[r] EXCEPT !.pc = "close", !.html = Some(h),
                               !.ret = Classify(call[r].status, h, call[r].pageUrl) ])
  /\ UNCHANGED << browser, bstate, pending, destroy >>

ContentFail(r) ==
  /\ call[r].pc = "content"
  /\ Catch(r)
  /\ UNCHANGED << browser, bstate, pending, destroy >>

--------------------------------------------------------------------------
\* getPageContent, the finally block (lines 260-262).

\* page.close() resolves: the pending return value is returned.
PageCloseOk(r) ==
  /\ call[r].pc = "close"
  /\ Usable(r)
  /\ Set(r, [ call[r] EXCEPT !.pc = "returned", !.page = "closed", !.closes = @ + 1 ])
  /\ UNCHANGED << browser, bstate, pending, destroy >>

\* page.close() rejects: the exception replaces the pending return value.
PageCloseFail(r) ==
  /\ call[r].pc = "close"
  /\ Set(r, [ call[r] EXCEPT !.pc = "thrown", !.closes = @ + 1, !.ret = NoResult,
                             !.rejected = "close" ])
  /\ UNCHANGED << browser, bstate, pending, destroy >>

--------------------------------------------------------------------------
\* UnblockerController.unblockWebsite (lines 11-21).

\* `const { html, status } = ...; res.status(status).send(html)`: the parts
\* of the result that reach the HTTP response.
Reply(result) ==
  [ html |-> result.html, status |-> result.status, error |-> Undefined,
    finalUrl |-> Undefined ]

\* getPageContent has returned: the controller answers the request.
UnblockWebsiteSend(r) ==
  /\ call[r].pc = "returned"
  /\ call[r].sent = NoResult
  /\ Set(r, [ call[r] EXCEPT !.sent = Reply(call[r].ret) ])
  /\ UNCHANGED << browser, bstate, pending, destroy >>

--------------------------------------------------------------------------
\* The browser process and the 'disconnected' listener (lines 146-149).

\* A launched browser process goes away (crash, kill, or the effect of
\* browser.close()): it reports itself disconnected and its 'disconnected'
\* event is emitted.
Disconnect(b) ==
  /\ bstate[b] = "live"
  /\ bstate' = [ bstate EXCEPT ![b] = "dead" ]
  /\ pending' = pending \cup { b }
  /\ UNCHANGED << browser, call, destroy >>

\* The listener registered on browser b runs.
OnDisconnected(b) ==
  /\ b \in pending
  /\ pending' = pending \ { b }
  /\ browser' = NoBrowser
  /\ UNCHANGED << bstate, call, destroy >>

--------------------------------------------------------------------------
\* onModuleDestroy (lines 114-120).

\* `if (this.browser)`: browser.close() is issued, or the call ends.
DestroyStart ==
  /\ destroy.pc = "idle"
  /\ IF browser # NoBrowser
       THEN destroy' = [ pc |-> "closing", closing |-> browser ]
       ELSE destroy' = [ pc |-> "done", closing |-> NoBrowser ]
  /\ UNCHANGED << browser, bstate, pending, call >>

\* browser.close() takes effect: the process ends.
DestroyClose ==
  /\ destroy.pc = "closing"
  /\ destroy' = [ destroy EXCEPT !.pc = "closed" ]
  /\ IF Connected(destroy.closing)
       THEN /\ bstate' = [ bstate EXCEPT ![destroy.closing] = "dead" ]
            /\ pending' = pending \cup { destroy.closing }
       ELSE UNCHANGED << bstate, pending >>
  /\ UNCHANGED << browser, call >>

\* Variant: the handle is left as it is after browser.close().
DestroyClearKeepsHandle ==
  /\ destroy.pc = "closed"
  /\ destroy' = [ destroy EXCEPT !.pc = "done" ]
  /\ UNCHANGED << browser, bstate, pending, call >>

\* The await of browser.close() resumes: `this.browser = null`.
DestroyClear ==
  /\ destroy.pc = "closed"
  /\ destroy' = [ destroy EXCEPT !.pc = "done" ]
  /\ browser' = NoBrowser
  /\ UNCHANGED << bstate, pending, call >>

--------------------------------------------------------------------------
\* One step of call r, meeting data d.
Fetch(r, d) ==
  \/ Start(r)
  \/ LaunchOk(r)
  \/ LaunchFail(r)
  \/ CreateContextOk(r)
  \/ CreateContextFail(r)
  \/ NewPageOk(r)
  \/ NewPageFail(r)
  \/ SetUserAgentOk(r)
  \/ SetUserAgentFail(r)
  \/ SetViewportOk(r)
  \/ SetViewportFail(r)
  \/ EvaluateOnNewDocumentOk(r)
  \/ EvaluateOnNewDocumentFail(r)
  \/ SetRequestInterceptionOk(r)
  \/ SetRequestInterceptionFail(r)
  \/ PageRequest(r, d)
  \/ GotoResponse(r, d)
  \/ GotoNoResponse(r, d)
  \/ GotoFail(r, d)
  \/ ContentOk(r, d)
  \/ ContentFail(r)
  \/ PageCloseOk(r)
  \/ PageCloseFail(r)
  \/ UnblockWebsiteSend(r)

\* One step of the shared browser's life cycle.
Pool ==
  \/ \E b \in Reqs : Disconnect(b) \/ OnDisconnected(b)
  \/ DestroyStart
  \/ DestroyClose
  \/ DestroyClear

\* Concurrent calls.
Next == (\E r \in Reqs : Fetch(r, SomeData)) \/ Pool

Spec == Init /\ [][Next]_vars

\* One call, over all the data it may meet.
NextFetch == Fetch(1, AllData) \/ Pool

SpecFetch == Init /\ [][NextFetch]_vars

\* The pool manager alone: concurrent calls up to the return of getBrowser
\* (the rest of a fetch neither reads nor writes this.browser, and no step
\* of the pool reads a call past that point).
Acquire(r) == Start(r) \/ LaunchOk(r) \/ LaunchFail(r)

NextPool == (\E r \in Reqs : Acquire(r)) \/ Pool

SpecPool == Init /\ [][NextPool]_vars

\* Concurrent calls up to the creation of their page (no later step
\* creates a context or a page, or changes which ones a call holds).
Open(r) ==
  \/ Acquire(r)
  \/ CreateContextOk(r)
  \/ CreateContextFail(r)
  \/ NewPageOk(r)
  \/ NewPageFail(r)

NextOpen == (\E r \in Reqs : Open(r)) \/ Pool

SpecOpen == Init /\ [][NextOpen]_vars

--------------------------------------------------------------------------
\* Properties.

Finished(r) == call[r].pc \in { "returned", "thrown" }

\* The context the call created still exists in a running browser.
ContextOpen(r) == call[r].context /\ Usable(r)

\* The outcome state a call passed through, read off its history.
Outcome(r) ==
  IF call[r].caught = "TimeoutError" THEN "TimedOut"
  ELSE IF call[r].caught = "Error" THEN "InternalError"
  ELSE IF call[r].navigated = "noresponse" THEN "NoResponse"
  ELSE IF call[r].html = None THEN "None"
  ELSE IF Includes(call[r].html[1], Marker) \/ call[r].status = 403 THEN "SoftBlocked"
  ELSE "Success"

\* The return statement of the call has been executed and not been
\* replaced by an exception of the finally block.
HasResult(r) == call[r].pc \in { "close", "returned" }

\* C1: getPageContent never lets an exception escape: no call ever ends by
\* throwing, whichever browser operation fails.
NeverThrows == \A r \in Reqs : call[r].pc # "thrown"

\* C2: no browsing context leaks: once a call has returned or thrown, the
\* context it created is closed.
NoContextLeak == \A r \in Reqs : Finished(r) => ~ContextOpen(r)

\* C3: whichever way navigation ended, once the call is over its page has
\* been closed exactly once and its context with it (creates and closes
\* are paired).
ClosedExactlyOnce ==
  \A r \in Reqs :
    (Finished(r) /\ call[r].navigated # "none")
      => (call[r].closes = 1 /\ ~ContextOpen(r))

\* C4: every fetch that is over has passed through exactly one of Success,
\* SoftBlocked, NoResponse, TimedOut, InternalError and has then been
\* closed, once.
OutcomeThenClosed ==
  \A r \in Reqs :
    Finished(r) => (Outcome(r) # "None" /\ call[r].closes = 1 /\ call[r].page = "closed")

\* C5: at most one browser process launched by getBrowser is alive at any
\* time.
AtMostOneLiveBrowser == Cardinality({ b \in Reqs : bstate[b] = "live" }) <= 1

\* C6: getBrowser returns the stored handle, launching nothing and leaving
\* the stored handle as it is, exactly when a handle is stored and reports
\* itself connected; otherwise it starts a launch, and a launch that
\* completes starts a new process, stores it and returns it, never the
\* handle that was stored.
GetBrowserReusesOrLaunches ==
  [][ \A r \in Reqs :
        /\ (call[r].pc = "idle" /\ call'[r].pc # "idle")
             => IF browser # NoBrowser /\ bstate[browser] = "live"
                  THEN /\ call'[r].pc = "createBrowserContext"
                       /\ call'[r].browser = browser
                       /\ browser' = browser
                       /\ bstate' = bstate
                  ELSE /\ call'[r].pc = "launch"
                       /\ call'[r].browser = NoBrowser
                       /\ bstate' = bstate
        /\ (call[r].pc = "launch" /\ call'[r].pc = "createBrowserContext")
             => /\ bstate[r] = "none"
                /\ bstate'[r] = "live"
                /\ browser' = r
                /\ call'[r].browser = r
                /\ browser # r
    ]_vars

\* C6 witness: a call was handed the browser another call launched, and it
\* is the stored, connected one.
ReusedStoredHandle ==
  \E r \in Reqs :
    /\ call[r].pc = "createBrowserContext"
    /\ call[r].browser \notin { NoBrowser, r }
    /\ call[r].browser = browser
    /\ Connected(browser)

\* C7: when the launch in getBrowser throws, getPageContent returns a
\* result with status 500, the generic internal-error message and no html.
LaunchFailureReturns500 ==
  \A r \in Reqs :
    call[r].rejected = "launch"
      => /\ call[r].pc = "returned"
         /\ call[r].ret.status = 500
         /\ call[r].ret.html = None
         /\ call[r].ret.error = InternalMessage

\* C8: when navigation returned a response and the serialized html holds
\* the marker or the response status is 403, the result has status 403,
\* carries the html, has its error set and the page's URL as finalUrl.
SoftBlockIs403 ==
  \A r \in Reqs :
    ( /\ HasResult(r)
      /\ call[r].navigated = "response"
      /\ call[r].html # None
      /\ call[r].caught = "none"
      /\ (Includes(call[r].html[1], Marker) \/ call[r].status = 403) )
      => /\ call[r].ret.status = 403
         /\ call[r].ret.html = call[r].html
         /\ call[r].ret.error # Undefined
         /\ call[r].ret.finalUrl = call[r].pageUrl

\* C8 witness: a call returned 403 for a response of status 200 whose html
\* holds the marker.
SoftBlockReturned ==
  \E r \in Reqs :
    /\ call[r].pc = "returned"
    /\ call[r].status = 200
    /\ call[r].html = Some(CaptchaHtml)
    /\ call[r].ret.status = 403

\* The error text of the README's example 504 response.
ReadmeTimeoutError ==
  "Navigation timed out after 60s. The target page is likely too slow or unresponsive."

\* C9: when navigation raises a TimeoutError, the result has status 504, no
\* html, the error text naming the timeout of 60s, and as finalUrl the
\* page's URL, or the requested URL when the page has none.
TimeoutIs504 ==
  \A r \in Reqs :
    ( /\ HasResult(r)
      /\ call[r].navigated = "threw"
      /\ call[r].caught = "TimeoutError" )
      => /\ call[r].ret.status = 504
         /\ call[r].ret.html = None
         /\ call[r].ret.error = ReadmeTimeoutError
         /\ call[r].ret.finalUrl =
              ( IF call[r].pageUrl = Undefined THEN call[r].url ELSE call[r].pageUrl )

\* C9 witness: a call returned after a navigation timeout that left the page
\* without a URL.
TimeoutReturned ==
  \E r \in Reqs :
    /\ call[r].pc = "returned"
    /\ call[r].navigated = "threw"
    /\ call[r].caught = "TimeoutError"
    /\ call[r].pageUrl = Undefined
    /\ call[r].ret.finalUrl = RequestedUrl

\* C10: when navigation completes without a response, the result has status
\* 502, no html, an error message and the page's location as finalUrl, and
\* neither the status nor the content of a response is read.
NoResponseIs502 ==
  \A r \in Reqs :
    (HasResult(r) /\ call[r].navigated = "noresponse")
      => /\ call[r].ret.status = 502
         /\ call[r].ret.html = None
         /\ call[r].ret.error # Undefined
         /\ call[r].ret.finalUrl = call[r].pageUrl
         /\ call[r].html = None
         /\ call[r].status = 0
         /\ Outcome(r) = "NoResponse"

\* C10 witness: a call returned after a navigation without response that
\* left the page at a redirect target.
NoResponseReturned ==
  \E r \in Reqs :
    /\ call[r].pc = "returned"
    /\ call[r].navigated = "noresponse"
    /\ call[r].pageUrl = RedirectUrl

\* C11: an exception other than a navigation timeout raised while creating
\* the context or the page, applying the profile, installing interception,
\* navigating or reading the content ends the call with a returned result
\* of status 500, no html and the generic internal-error message.
OtherFailureReturns500 ==
  \A r \in Reqs :
    ( /\ Finished(r)
      /\ call[r].rejected # "close"
      /\ \/ call[r].rejected \in { "createBrowserContext", "newPage" }
         \/ call[r].caught = "Error" )
      => /\ call[r].pc = "returned"
         /\ call[r].ret.status = 500
         /\ call[r].ret.html = None
         /\ call[r].ret.error = InternalMessage

\* C12: in every result the error field is set exactly when the status is
\* outside the success range 200-399.
ErrorIffNonSuccess ==
  \A r \in Reqs :
    HasResult(r)
      => ((call[r].ret.error # Undefined) <=> (call[r].ret.status \notin 200 .. 399))

\* The requests of the model that the filter rules tell to abort: those
\* with an init-script path (whatever the case) or a tracking domain.
ExpectedAborted ==
  { InitScriptUrl, LowerInitScriptUrl, TrackedInitScriptUrl, TrackerUrl }

\* C13: every request a page issues is resolved exactly once: aborted when
\* its URL matches the init-script pattern, else aborted when it holds a
\* blocked tracking domain, else continued; and when an init-script
\* request of a fetch is aborted, the document request of that fetch has
\* been continued.
RequestsResolvedOnce ==
  \A r \in Reqs :
    /\ \A q \in call[r].requests :
         q.calls = (IF q.url \in ExpectedAborted THEN << "abort" >> ELSE << "continue" >>)
    /\ (\E q \in call[r].requests : q.url = InitScriptUrl)
         => [ url |-> DocumentUrl, calls |-> << "continue" >> ] \in call[r].requests

\* C13 witness: a fetch that got its response and returned, having aborted
\* the init script and a request that is both init script and tracker.
InitScriptAborted ==
  \E r \in Reqs :
    /\ call[r].pc = "returned"
    /\ call[r].navigated = "response"
    /\ [ url |-> InitScriptUrl, calls |-> << "abort" >> ] \in call[r].requests
    /\ [ url |-> TrackedInitScriptUrl, calls |-> << "abort" >> ] \in call[r].requests
    /\ [ url |-> DocumentUrl, calls |-> << "continue" >> ] \in call[r].requests

EndpointSendsTimeoutRecord ==
  \A r \in Reqs :
    ( /\ call[r].sent # NoResult
      /\ call[r].navigated = "threw"
      /\ call[r].caught = "TimeoutError" )
      => /\ call[r].sent.status = 504
         /\ call[r].sent.html = None
         /\ call[r].sent.error = ReadmeTimeoutError
         /\ call[r].sent.finalUrl = call[r].ret.finalUrl

\* C16: each call holds at most one context and one page, made for it when
\* it asked for them, and no context or page is held by two calls.
ContextsExclusivelyOwned ==
  \A r \in Reqs :
    /\ call[r].context <=> call[r].contextId # 0
    /\ call[r].page # "none" <=> call[r].pageId # 0
    /\ call[r].pageId # 0 => call[r].contextId # 0
    /\ \A q \in Reqs \ { r } :
         /\ call[r].contextId # 0 => call[q].contextId # call[r].contextId
         /\ call[r].pageId # 0 => call[q].pageId # call[r].pageId

\* C16 witness: two calls hold a page each, in the same browser.
TwoPagesInOneBrowser ==
  \E r \in Reqs, q \in Reqs :
    /\ r # q
    /\ call[r].pageId # 0
    /\ call[q].pageId # 0
    /\ call[r].browser = call[q].browser

\* No browser has disconnected and onModuleDestroy has not begun.
Quiet ==
  /\ \A b \in Reqs : bstate[b] # "dead"
  /\ pending = {}
  /\ destroy.pc = "idle"

\* The launch of call r resolves in this step.
LaunchResolves(r) == call[r].pc = "launch" /\ call'[r].pc = "createBrowserContext"

\* C17: last writer wins: every launch that resolves stores its own handle
\* over whatever is stored and closes no other process, and absent
\* disconnects and shutdown nothing else changes the stored handle; so once
\* all launches have resolved the stored handle is the one that resolved
\* last, and the processes launched before it run on, unreferenced.
LastWriterWins ==
  [][ /\ \A r \in Reqs :
           LaunchResolves(r)
             => /\ browser' = r
                /\ \A b \in Reqs \ { r } : bstate'[b] = bstate[b]
      /\ (Quiet /\ Quiet' /\ ~(\E r \in Reqs : LaunchResolves(r)))
           => browser' = browser
    ]_vars

\* C17 witness: no disconnect, no shutdown, no launch in flight; every call
\* has launched a browser, all run, and one of them is stored.
AllLaunchedOneStored ==
  /\ Quiet
  /\ \A r \in Reqs : call[r].pc = "createBrowserContext" /\ call[r].browser = r
  /\ \A b \in Reqs : bstate[b] = "live"
  /\ browser # NoBrowser

\* C18: once onModuleDestroy has completed and the acquisitions in flight
\* have finished, no call having been made after it, no browser process
\* launched by getBrowser is alive and no handle is stored.
ShutdownLeavesNoBrowser ==
  ( /\ destroy.pc = "done"
    /\ \A r \in Reqs : call[r].pc # "launch" /\ ~call[r].late )
    => /\ browser = NoBrowser
       /\ \A b \in Reqs : bstate[b] # "live"

\* C19: when the 'disconnected' listener of a browser other than the stored
\* one runs while the stored browser is connected, the stored handle is left
\* unchanged.
ForeignDisconnectKeepsHandle ==
  [][ \A b \in Reqs :
        ( /\ b \in pending
          /\ b \notin pending'
          /\ browser # NoBrowser
          /\ browser # b
          /\ Connected(browser) )
          => browser' = browser ]_vars

\* C20: within one fetch, navigation is not started, and the page issues no
\* request, before the user agent, the viewport and the page-load overrides
\* have been applied and request interception with its listener installed.
SetUpBeforeNavigation ==
  \A r \in Reqs :
    ( \/ call[r].pc = "goto"
      \/ call[r].navigated # "none"
      \/ call[r].requests # {} )
      => SetUp \subseteq call[r].applied

\* A navigation that got a response, its requests issued after the set-up.
NavigatedAfterSetUp ==
  \E r \in Reqs :
    /\ call[r].navigated = "response"
    /\ call[r].requests # {}
    /\ SetUp \subseteq call[r].applied

=============================================================================
